---- MODULE Spec2Model ----
(***************************************************************************)
(* The video summarizer pipeline of app.py: main() and the stage functions *)
(* it calls (download_video, extract_audio, transcribe_audio,              *)
(* summarize_text, translate_text, text_to_speech), with the temp files    *)
(* they create and remove.                                                 *)
(*                                                                         *)
(* A Python string is a sequence of tokens.  A path is a sequence of       *)
(* one-character tokens, so that endswith() and replace() are computed     *)
(* character by character; a text or a message is a sequence of opaque     *)
(* tokens.  None and the empty string are both <<>>: every place where the *)
(* code tells them apart from a value is a truthiness test.                *)
(***************************************************************************)
EXTENDS Integers, Sequences, FiniteSets, TLC

VARIABLES
    pc,                  \* position of main()
    uploaded_file,       \* TRUE iff st.file_uploader returned a file
    video_url,           \* st.text_input value
    video_path,          \* main's local
    audio_path,          \* main's local
    transcript,          \* main's local
    summary,             \* main's local
    translated_summary,  \* main's local
    audio_summary_path,  \* main's local
    disk,                \* the paths that exist on disk
    handles,             \* the media handles that are open
    out,                 \* what st.write / st.audio have shown, in order
    raised,              \* the exception that escaped main(), or "none"
    log,                 \* history: stage calls, returns, raises, removals
    made                 \* history: the files this run created, by kind

vars == << pc, uploaded_file, video_url, video_path, audio_path, transcript,
           summary, translated_summary, audio_summary_path, disk, handles,
           out, raised, log, made >>

None == <<>>

\* ------------------------------------------------------------------ paths

WEBM == << ".", "w", "e", "b", "m" >>
MP4  == << ".", "m", "p", "4" >>
MP3  == << ".", "m", "p", "3" >>

\* The pieces a path is put together from.
Pieces == { << "a" >>, << "/" >>, MP4, WEBM, << ".", "m", "k", "v" >> }

\* The greatest number of pieces in a path.
MaxPieces == 3

RECURSIVE PathsOf(_)
PathsOf(n) ==
    IF n = 0 THEN { <<>> }
    ELSE { p \o q : p \in PathsOf(n - 1), q \in Pieces }

\* Every non-empty path of at most n pieces.
PathsUpTo(n) == UNION { PathsOf(k) : k \in 1..n }

Paths == PathsUpTo(MaxPieces)

\* str.endswith
EndsWith(s, suffix) ==
    /\ Len(s) >= Len(suffix)
    /\ SubSeq(s, Len(s) - Len(suffix) + 1, Len(s)) = suffix

\* str.replace(old, new): every non-overlapping occurrence, left to right.
RECURSIVE Replace(_, _, _)
Replace(s, old, new) ==
    IF Len(s) < Len(old) THEN s
    ELSE IF SubSeq(s, 1, Len(old)) = old
         THEN new \o Replace(SubSeq(s, Len(old) + 1, Len(s)), old, new)
         ELSE << Head(s) >> \o Replace(Tail(s), old, new)

\* os.path.exists
Exists(path, d) == path \in d

\* --------------------------------------------------------- stage functions

\* What the external collaborators can do to one call.  The summary length and
\* the target language only parametrise requests whose answers are drawn here,
\* so they are not state.
Messages == { << "quota exceeded" >> }

Responses(text) ==
    { [ok |-> TRUE, val |-> text] } \cup { [ok |-> FALSE, val |-> m] : m \in Messages }

ExtractEnvs == { "ok", "open_fails", "no_audio", "write_fails", "write_partial" }
SpeechEnvs  == { "ok", "gtts_fails", "save_fails" }
RemoveEnvs  == { "ok", "PermissionError", "OSError" }

\* download_video: the path yt-dlp reports (which may name no file), or the
\* exception it raised.
download_video(url, resp) ==
    IF resp.ok THEN [exc |-> "none", ret |-> resp.val]
    ELSE [exc |-> "DownloadError", ret |-> None]

\* The destination of the extracted audio.
temp_audio_path(path) ==
    IF EndsWith(path, WEBM) THEN Replace(path, WEBM, MP3)
    ELSE IF EndsWith(path, MP4) THEN Replace(path, MP4, MP3)
    ELSE path \o MP3

\* extract_audio without its os.path.exists test: VideoFileClip is called on
\* whatever path it is given.
extract_audio_unchecked(path, d, env) ==
    LET dest == temp_audio_path(path) IN
    IF ~Exists(path, d) \/ env = "open_fails" THEN
        [exc |-> "OSError", ret |-> None, disk |-> d,
         handles |-> {}, opened |-> TRUE, wrote |-> {}]
    ELSE IF env = "no_audio" THEN
        [exc |-> "AttributeError", ret |-> None, disk |-> d,
         handles |-> { "video" }, opened |-> TRUE, wrote |-> {}]
    ELSE IF env = "write_fails" THEN
        [exc |-> "OSError", ret |-> None, disk |-> d,
         handles |-> { "video", "audio" }, opened |-> TRUE, wrote |-> {}]
    ELSE IF env = "write_partial" THEN
        [exc |-> "OSError", ret |-> None, disk |-> d \cup { dest },
         handles |-> { "video", "audio" }, opened |-> TRUE, wrote |-> { dest }]
    ELSE
        [exc |-> "none", ret |-> dest, disk |-> d \cup { dest },
         handles |-> {}, opened |-> TRUE, wrote |-> { dest }]

\* extract_audio on disk d: what it returns or raises, the disk it leaves,
\* the handles it leaves open, and whether it called VideoFileClip.
extract_audio(path, d, env) ==
    LET dest == temp_audio_path(path) IN
    IF ~Exists(path, d) THEN
        [exc |-> "FileNotFoundError", ret |-> None, disk |-> d,
         handles |-> {}, opened |-> FALSE, wrote |-> {}]
    ELSE IF env = "open_fails" THEN
        [exc |-> "OSError", ret |-> None, disk |-> d,
         handles |-> {}, opened |-> TRUE, wrote |-> {}]
    ELSE IF env = "no_audio" THEN      \* video.audio is None
        [exc |-> "AttributeError", ret |-> None, disk |-> d,
         handles |-> { "video" }, opened |-> TRUE, wrote |-> {}]
    ELSE IF env = "write_fails" THEN   \* write_audiofile raises, no file yet
        [exc |-> "OSError", ret |-> None, disk |-> d,
         handles |-> { "video", "audio" }, opened |-> TRUE, wrote |-> {}]
    ELSE IF env = "write_partial" THEN \* write_audiofile raises, file begun
        [exc |-> "OSError", ret |-> None, disk |-> d \cup { dest },
         handles |-> { "video", "audio" }, opened |-> TRUE, wrote |-> { dest }]
    ELSE
        [exc |-> "none", ret |-> dest, disk |-> d \cup { dest },
         handles |-> {},              \* video.close(); audio.close()
         opened |-> TRUE, wrote |-> { dest }]

transcribe_audio(path, resp) ==
    IF resp.ok THEN resp.val
    ELSE << "An error occurred during transcription: " >> \o resp.val

create_prompt ==
    << "You are a YouTube video summarizer. [...] within {length} words. [...]: " >>

\* summarize_text returning the bare message of the exception.
summarize_text_bare(text, prompt, resp) == resp.val

summarize_text(text, prompt, resp) ==
    IF resp.ok THEN resp.val
    ELSE << "An error occurred during summarization: " >> \o resp.val

translate_text(text, resp) ==
    IF resp.ok THEN resp.val
    ELSE << "An error occurred during translation: " >> \o resp.val

\* text_to_speech on disk d, `name` being the fresh temp name.
text_to_speech(text, d, name, env, msg) ==
    IF env = "gtts_fails" THEN
        [ret |-> << "An error occurred during text-to-speech: " >> \o msg,
         disk |-> d, wrote |-> {}]
    ELSE IF env = "save_fails" THEN
        [ret |-> << "An error occurred during text-to-speech: " >> \o msg,
         disk |-> d \cup { name }, wrote |-> { name }]
    ELSE [ret |-> name, disk |-> d \cup { name }, wrote |-> { name }]

\* os.remove
remove(path, d, env) ==
    IF env = "ok" THEN [exc |-> "none", disk |-> d \ { path }]
    ELSE [exc |-> env, disk |-> d]

\* ------------------------------------------------------------------ main

Stages == << "acquisition", "extraction", "transcription", "summarization",
             "translation", "text-to-speech" >>

Ev(e, s, v) == [ev |-> e, stage |-> s, val |-> v]
Shown(k, v) == [kind |-> k, val |-> v]

\* The names the temp-file allocator can hand out: NamedTemporaryFile with
\* suffix .mp4 for an upload, with suffix .mp3 for the synthesized speech.
UploadNames == { p \o MP4 : p \in PathsUpTo(MaxPieces - 1) }
SpeechNames == { << "t" >> \o MP3 }

\* What the services answer when they succeed.
Url            == << "url" >>
TranscriptText == << "transcript" >>
SummaryText    == << "summary" >>
TranslatedText == << "translated" >>

Init ==
    /\ pc = "start"
    /\ uploaded_file \in BOOLEAN
    /\ video_url \in { None, Url }
    /\ video_path = None
    /\ audio_path = None
    /\ transcript = None
    /\ summary = None
    /\ translated_summary = None
    /\ audio_summary_path = None
    /\ disk = {}
    /\ handles = {}
    /\ out = <<>>
    /\ raised = "none"
    /\ log = <<>>
    /\ made = [video |-> {}, audio |-> {}, speech |-> {}]

\* The upload branch followed by a plain `if video_url:`.
AfterUploadThenUrl == "url"

\* Where control goes after the upload branch: past the elif.
AfterUpload == "dispatch"

\* if uploaded_file is not None: write the bytes to a fresh temp file.  A
\* failed write escapes main(), which has no handler around it.
Upload ==
    /\ pc = "start"
    /\ uploaded_file
    /\ \E name \in UploadNames \ disk, written \in BOOLEAN :
        /\ video_path' = name
        /\ disk' = disk \cup { name }
        /\ made' = [made EXCEPT !.video = @ \cup { name }]
        /\ IF written
           THEN /\ pc' = AfterUpload
                /\ out' = Append(out, Shown("video", name))
                /\ raised' = raised
                /\ log' = log \o << Ev("call", "acquisition", << "upload" >>),
                                    Ev("ret", "acquisition", name) >>
           ELSE /\ pc' = "done"
                /\ out' = out
                /\ raised' = "OSError"
                /\ log' = log \o << Ev("call", "acquisition", << "upload" >>),
                                    Ev("raise", "acquisition", << "OSError" >>) >>
    /\ UNCHANGED << uploaded_file, video_url, audio_path, transcript, summary,
                    translated_summary, audio_summary_path, handles >>

NoUpload ==
    /\ pc = "start"
    /\ ~uploaded_file
    /\ pc' = "url"
    /\ UNCHANGED << uploaded_file, video_url, video_path, audio_path, transcript,
                    summary, translated_summary, audio_summary_path, disk,
                    handles, out, raised, log, made >>

\* elif video_url: download, reporting a failure and going on with no video.
Download ==
    /\ pc = "url"
    /\ video_url # None
    /\ \E resp \in UNION { Responses(p) : p \in Paths }, onDisk \in BOOLEAN :
        LET r == download_video(video_url, resp) IN
        /\ pc' = "dispatch"
        /\ IF r.exc = "none"
           THEN /\ video_path' = r.ret
                /\ disk' = IF onDisk THEN disk \cup { r.ret } ELSE disk
                /\ made' = IF onDisk THEN [made EXCEPT !.video = @ \cup { r.ret }]
                           ELSE made
                /\ out' = Append(out, Shown("video", r.ret))
                /\ log' = log \o << Ev("call", "acquisition", video_url),
                                    Ev("ret", "acquisition", r.ret) >>
           ELSE /\ ~onDisk
                /\ video_path' = video_path
                /\ disk' = disk
                /\ made' = made
                /\ out' = Append(out, Shown("download_error", resp.val))
                /\ log' = log \o << Ev("call", "acquisition", video_url),
                                    Ev("raise", "acquisition", resp.val) >>
    /\ UNCHANGED << uploaded_file, video_url, audio_path, transcript, summary,
                    translated_summary, audio_summary_path, handles, raised >>

NoUrl ==
    /\ pc = "url"
    /\ video_url = None
    /\ pc' = "dispatch"
    /\ UNCHANGED << uploaded_file, video_url, video_path, audio_path, transcript,
                    summary, translated_summary, audio_summary_path, disk,
                    handles, out, raised, log, made >>

\* The try block entered whatever video_path is.
DispatchAlways(path) == "extract"

\* if video_path:
Dispatch(path) == IF path # None THEN "extract" ELSE "done"

Process ==
    /\ pc = "dispatch"
    /\ pc' = Dispatch(video_path)
    /\ UNCHANGED << uploaded_file, video_url, video_path, audio_path, transcript,
                    summary, translated_summary, audio_summary_path, disk,
                    handles, out, raised, log, made >>

\* The try body with summarization written before transcription.
AfterSwapped(stage) ==
    CASE stage = "extract"    -> "summarize"
      [] stage = "summarize"  -> "transcribe"
      [] stage = "transcribe" -> "translate"
      [] stage = "translate"  -> "synthesize"
      [] stage = "synthesize" -> "cleanup_video"

\* The statement order of the try body: the position after each stage.
After(stage) ==
    CASE stage = "extract"    -> "transcribe"
      [] stage = "transcribe" -> "summarize"
      [] stage = "summarize"  -> "translate"
      [] stage = "translate"  -> "synthesize"
      [] stage = "synthesize" -> "cleanup_video"

\* audio_path = extract_audio(video_path): an exception is caught by main's
\* handler, which reports it and falls through to the finally block with
\* audio_path still None.
Extract ==
    /\ pc = "extract"
    /\ \E env \in ExtractEnvs :
        LET r == extract_audio(video_path, disk, env)
            seen == IF r.opened THEN << Ev("open", "extraction", video_path) >>
                    ELSE <<>>
        IN
        /\ disk' = r.disk
        /\ handles' = handles \cup r.handles
        /\ made' = [made EXCEPT !.audio = @ \cup r.wrote]
        /\ IF r.exc = "none"
           THEN /\ audio_path' = r.ret
                /\ log' = log \o << Ev("call", "extraction", video_path) >> \o seen
                              \o << Ev("ret", "extraction", r.ret) >>
                /\ IF r.ret # None
                   THEN /\ pc' = After("extract")
                        /\ out' = out
                   ELSE /\ pc' = "cleanup_video"
                        /\ out' = Append(out, Shown("extract_failed", None))
           ELSE /\ audio_path' = audio_path
                /\ log' = log \o << Ev("call", "extraction", video_path) >> \o seen
                              \o << Ev("raise", "extraction", << r.exc >>) >>
                /\ pc' = "cleanup_video"
                /\ out' = Append(out, Shown("processing_error", << r.exc >>))
    /\ UNCHANGED << uploaded_file, video_url, video_path, transcript, summary,
                    translated_summary, audio_summary_path, raised >>

\* What a stage that masks its failure adds to the history.
Masked(stage, input, resp, result) ==
    << Ev("call", stage, input) >>
    \o (IF resp.ok THEN <<>> ELSE << Ev("fail", stage, resp.val) >>)
    \o << Ev("ret", stage, result) >>

Transcribe ==
    /\ pc = "transcribe"
    /\ \E resp \in Responses(TranscriptText) :
        LET t == transcribe_audio(audio_path, resp) IN
        /\ transcript' = t
        /\ log' = log \o Masked("transcription", audio_path, resp, t)
    /\ pc' = After("transcribe")
    /\ UNCHANGED << uploaded_file, video_url, video_path, audio_path, summary,
                    translated_summary, audio_summary_path, disk, handles, out,
                    raised, made >>

Summarize ==
    /\ pc = "summarize"
    /\ \E resp \in Responses(SummaryText) :
        LET t == summarize_text(transcript, create_prompt, resp) IN
        /\ summary' = t
        /\ out' = Append(out, Shown("summary", t))
        /\ log' = log \o Masked("summarization", transcript, resp, t)
    /\ pc' = After("summarize")
    /\ UNCHANGED << uploaded_file, video_url, video_path, audio_path, transcript,
                    translated_summary, audio_summary_path, disk, handles,
                    raised, made >>

Translate ==
    /\ pc = "translate"
    /\ \E resp \in Responses(TranslatedText) :
        LET t == translate_text(summary, resp) IN
        /\ translated_summary' = t
        /\ out' = Append(out, Shown("translated", t))
        /\ log' = log \o Masked("translation", summary, resp, t)
    /\ pc' = After("translate")
    /\ UNCHANGED << uploaded_file, video_url, video_path, audio_path, transcript,
                    summary, audio_summary_path, disk, handles, raised, made >>

\* The isinstance test alone.
PlayableAnyString(value, d) == TRUE

\* isinstance(audio_summary_path, str) and os.path.exists(audio_summary_path):
\* every value here is a string.
Playable(value, d) == Exists(value, d)

\* audio_summary_path = text_to_speech(...), then st.audio or the failure text.
Synthesize ==
    /\ pc = "synthesize"
    /\ \E name \in SpeechNames \ disk, env \in SpeechEnvs, msg \in Messages :
        LET r == text_to_speech(translated_summary, disk, name, env, msg)
            resp == [ok |-> env = "ok", val |-> msg]
        IN
        /\ audio_summary_path' = r.ret
        /\ disk' = r.disk
        /\ made' = [made EXCEPT !.speech = @ \cup r.wrote]
        /\ log' = log \o Masked("text-to-speech", translated_summary, resp, r.ret)
        /\ out' = IF Playable(r.ret, r.disk)
                  THEN Append(out, Shown("audio", r.ret))
                  ELSE Append(out, Shown("audio_failed", r.ret))
    /\ pc' = After("synthesize")
    /\ UNCHANGED << uploaded_file, video_url, video_path, audio_path, transcript,
                    summary, translated_summary, handles, raised >>

\* except PermissionError
Handled(exc) == exc = "PermissionError"

\* One deletion of the finally block: the file `path` of kind `kind`, then on to
\* position `next` unless os.remove raised something the handler lets through.
Delete(kind, path, next) ==
    IF path # None /\ Exists(path, disk)
    THEN \E env \in RemoveEnvs :
            LET r == remove(path, disk, env) IN
            /\ disk' = r.disk
            /\ IF r.exc = "none"
               THEN /\ log' = Append(log, Ev("remove", kind, path))
                    /\ out' = out
                    /\ raised' = raised
                    /\ pc' = next
               ELSE /\ log' = log \o << Ev("remove", kind, path),
                                        Ev("remove_error", kind, path) >>
                    /\ IF Handled(r.exc)
                       THEN /\ out' = Append(out, Shown("delete_failed", path))
                            /\ raised' = raised
                            /\ pc' = next
                       ELSE /\ out' = out
                            /\ raised' = r.exc
                            /\ pc' = "done"
    ELSE /\ pc' = next
         /\ UNCHANGED << disk, log, out, raised >>

CleanupVideo ==
    /\ pc = "cleanup_video"
    /\ Delete("video", video_path, "cleanup_audio")
    /\ UNCHANGED << uploaded_file, video_url, video_path, audio_path, transcript,
                    summary, translated_summary, audio_summary_path, handles,
                    made >>

CleanupAudio ==
    /\ pc = "cleanup_audio"
    /\ Delete("audio", audio_path, "done")
    /\ UNCHANGED << uploaded_file, video_url, video_path, audio_path, transcript,
                    summary, translated_summary, audio_summary_path, handles,
                    made >>

Next ==
    \/ Upload
    \/ NoUpload
    \/ Download
    \/ NoUrl
    \/ Process
    \/ Extract
    \/ Transcribe
    \/ Summarize
    \/ Translate
    \/ Synthesize
    \/ CleanupVideo
    \/ CleanupAudio

Spec == Init /\ [][Next]_vars

\* ----------------------------------------------------------------- claims

Logged(e, s)   == { i \in DOMAIN log : log[i].ev = e /\ log[i].stage = s }
Called(s)      == Logged("call", s) # {}
Failed(s)      == Logged("fail", s) # {}
ShownKind(k)   == { j \in DOMAIN out : out[j].kind = k }
InCleanup      == pc \in { "cleanup_video", "cleanup_audio", "done" }
DeleteError(f) == \E i \in DOMAIN log : log[i].ev = "remove_error" /\ log[i].val = f
StageIndex(s)  == CHOOSE k \in DOMAIN Stages : Stages[k] = s

\* C1: when the run has returned control, no video or extracted-audio temp
\* file that the run acquired or began to produce is still on disk, unless a
\* deletion attempt for that very file reported an error.
C1_TempFilesRemoved ==
    pc = "done" =>
        \A f \in made.video \cup made.audio : f \in disk => DeleteError(f)

\* C2: once acquisition has failed (the download raised or the upload write
\* failed), no later stage is ever invoked and the failure has been reported:
\* shown as a download error or raised out of main.
C2_AcquisitionFailureHalts ==
    Logged("raise", "acquisition") # {} =>
        /\ \A i \in DOMAIN log : log[i].ev \in { "call", "open" }
                                    => log[i].stage = "acquisition"
        /\ made.audio = {} /\ made.speech = {}
        /\ raised # "none" \/ ShownKind("download_error") # {}

C2_Witness ==
    /\ pc = "done"
    /\ Logged("raise", "acquisition") # {}
    /\ raised = "none"

\* The text the claim expects of a failed masking stage.
MaskText(s, msg) ==
    CASE s = "transcription" -> << "An error occurred during transcription: " >> \o msg
      [] s = "summarization" -> << "An error occurred during summarization: " >> \o msg
      [] s = "translation"   -> << "An error occurred during translation: " >> \o msg
      [] s = "text-to-speech" -> << "An error occurred during text-to-speech: " >> \o msg

\* C3: a failure of transcription, summarization, translation or synthesis is
\* followed at once by the stage returning "An error occurred during <stage>:
\* <message>"; nothing is raised; and by the time cleanup starts every later
\* stage has been invoked, the next one with exactly that string as its input.
C3_MaskingErrors ==
    \A i \in DOMAIN log :
        log[i].ev = "fail" =>
            LET s    == log[i].stage
                k    == StageIndex(s)
                text == MaskText(s, log[i].val)
            IN
            /\ i + 1 \in DOMAIN log
            /\ log[i + 1] = Ev("ret", s, text)
            /\ Logged("raise", s) = {}
            /\ InCleanup =>
                /\ \A n \in (k + 1)..Len(Stages) : Called(Stages[n])
                /\ k < Len(Stages) =>
                     \A j \in Logged("call", Stages[k + 1]) : log[j].val = text

C3_Witness ==
    /\ pc = "done"
    /\ \A n \in 3..Len(Stages) : Failed(Stages[n])

\* The destination the claim states: only the final suffix is replaced.
ClaimedAudioPath(path) ==
    IF EndsWith(path, WEBM) THEN SubSeq(path, 1, Len(path) - Len(WEBM)) \o MP3
    ELSE IF EndsWith(path, MP4) THEN SubSeq(path, 1, Len(path) - Len(MP4)) \o MP3
    ELSE path \o MP3

\* C4: whatever extract_audio returns for a video path p is p with its final
\* .webm or .mp4 suffix, and nothing else, replaced by .mp3, or p with .mp3
\* appended when p has neither suffix.
C4_AudioPathPolicy ==
    \A i \in Logged("ret", "extraction") : log[i].val = ClaimedAudioPath(video_path)

\* C5: a failed deletion in the finally block never escapes the run, is
\* reported to the user, and a failed video deletion still lets the audio
\* deletion be attempted.
C5_CleanupNeverFatal ==
    /\ \A i \in DOMAIN log :
          log[i].ev = "remove_error" =>
              /\ raised = "none"
              /\ \E j \in ShownKind("delete_failed") : out[j].val = log[i].val
    /\ (pc = "done" /\ Logged("remove_error", "video") # {}
          /\ audio_path # None /\ audio_path \in disk)
          => Logged("remove", "audio") # {}

\* C6: once extract_audio has returned control, by return or by raise, no
\* media handle it opened is still open.
C6_HandlesReleased ==
    (Logged("ret", "extraction") \cup Logged("raise", "extraction")) # {}
        => handles = {}

\* extract_audio was handed a path that names no file.
MissingVideo == Called("extraction") /\ video_path \notin made.video

\* C7: handed a path that does not exist, extract_audio raises
\* FileNotFoundError without opening the video or writing an audio file; no
\* later stage is invoked and the error is shown.
C7_MissingVideoHalts ==
    MissingVideo =>
        /\ Logged("raise", "extraction") # {}
        /\ \A i \in Logged("raise", "extraction") :
              log[i].val = << "FileNotFoundError" >>
        /\ Logged("open", "extraction") = {}
        /\ made.audio = {}
        /\ \A n \in 3..Len(Stages) : ~Called(Stages[n])
        /\ \E j \in ShownKind("processing_error") :
              out[j].val = << "FileNotFoundError" >>

C7_Witness == pc = "done" /\ MissingVideo /\ video_path # None

\* The calls, returns and raises of the stages, in order.
IsStageEvent(e) == e.ev \in { "call", "ret", "raise" }
StageEvents == SelectSeq(log, IsStageEvent)

\* C8: the stages are called in the fixed order, each at most once, each only
\* after the one before it has returned, each with the previous stage's
\* output as its input; and no file is removed before the last stage called
\* has returned control.
C8_LinearOrder ==
    LET se == StageEvents IN
    /\ \A i \in DOMAIN se :
          IF i % 2 = 1
          THEN /\ se[i].ev = "call"
               /\ (i + 1) \div 2 \in DOMAIN Stages
               /\ se[i].stage = Stages[(i + 1) \div 2]
               /\ i > 1 => se[i - 1].ev = "ret" /\ se[i].val = se[i - 1].val
          ELSE /\ se[i].ev \in { "ret", "raise" }
               /\ se[i].stage = se[i - 1].stage
    /\ Len(se) % 2 = 0
    /\ \A i \in DOMAIN log :
          log[i].ev = "remove" =>
              \A j \in DOMAIN log : IsStageEvent(log[j]) => j < i

C8_Witness ==
    /\ pc = "done"
    /\ Len(StageEvents) = 2 * Len(Stages)
    /\ Logged("remove", "video") # {}
    /\ Logged("remove", "audio") # {}

\* C9: a run acquires its video once, from one source (the upload whenever a
\* file was uploaded, the downloader then never being called), and creates at
\* most one video file, one extracted-audio file and one speech file.
C9_OneArtifactPerKind ==
    /\ Cardinality(Logged("call", "acquisition")) <= 1
    /\ uploaded_file =>
          \A i \in Logged("call", "acquisition") : log[i].val = << "upload" >>
    /\ Cardinality(made.video) <= 1
    /\ Cardinality(made.audio) <= 1
    /\ Cardinality(made.speech) <= 1

C9_Witness ==
    /\ pc = "done"
    /\ uploaded_file /\ video_url # None
    /\ made.video # {} /\ made.audio # {} /\ made.speech # {}

\* C10: once text_to_speech has returned, its value has been shown exactly
\* once: as audio only when it names a file on disk, as the failure text
\* otherwise (so always when synthesis failed); and control is in cleanup
\* with nothing raised unless a deletion raised it.
C10_AudioSurfacedOnlyIfFile ==
    Logged("ret", "text-to-speech") # {} =>
        /\ Cardinality(ShownKind("audio") \cup ShownKind("audio_failed")) = 1
        /\ \A j \in ShownKind("audio") \cup ShownKind("audio_failed") :
              out[j].val = audio_summary_path
        /\ ShownKind("audio") # {} <=> audio_summary_path \in disk
        /\ Failed("text-to-speech") => ShownKind("audio_failed") # {}
        /\ InCleanup
        /\ raised # "none" => Logged("remove_error", "video")
                                 \cup Logged("remove_error", "audio") # {}

C10_Witness ==
    /\ pc = "done"
    /\ Failed("text-to-speech")
    /\ made.speech # {}
    /\ ShownKind("audio_failed") # {}

====
